---- MODULE Spec2Model ----
(***************************************************************************)
(* Model of update-manifest (main.go): one run of the program publishes an *)
(* artifact to an object-storage bucket and merges its location into the   *)
(* manifest document stored in the same bucket.  Several runs of the       *)
(* program may be in flight against the same bucket.                       *)
(***************************************************************************)
EXTENDS Integers, Sequences, FiniteSets, TLC

\* ------------------------------------------------------------------ bounds
NumProcs == 2          \* program instances that may run at the same time
MaxRuns == 2           \* invocations of the program in one behaviour

Procs == 1 .. NumProcs

\* ------------------------------------------------------- input domains
EnvNames ==
  <<"ACCOUNT_ID", "ACCESS_KEY", "ACCESS_SECRET", "BUCKET", "CHANNEL",
    "APP_ID", "VERSION", "PLATFORM", "EXECUTABLE_PATH">>

AppIDs == {"app1"}
Channels == {"stable", "beta"}
Platforms == {"linux-x64", "win-x64"}
Versions == {"1.0.0", "1.1.0"}
Contents == {<<104, 105>>, <<7>>}     \* artifact byte contents
ModTimes == {1, 2, 3}                 \* modification times of the artifact file
MaxJSONTime == 2                      \* times above it lie past year 9999

\* --------------------------------------------------- Go values (memory)
Nil == [kind |-> "nil"]
GoMap(f) == [kind |-> "map", m |-> f]
Ptr(s) == [kind |-> "ptr", v |-> s]
EmptyFcn == [k \in {} |-> Nil]
ZeroTime == 0

MapPut(f, k, val) == [x \in (DOMAIN f) \cup {k} |-> IF x = k THEN val ELSE f[x]]

\* The zero value of `var manifest Manifest`.
ZeroManifest == [Channel |-> Nil]

\* --------------------------------------------- JSON values (stored bytes)
JNull == [j |-> "null"]
JAbsent == [j |-> "absent"]
JInvalid == [j |-> "invalid"]
JObj(f) == [j |-> "object", members |-> f]
JDoc(c) == [j |-> "doc", channel |-> c]
JChan(ver, b, art) == [j |-> "chan", version |-> ver, build |-> b, artifact |-> art]
JArt(bin, sum, p) == [j |-> "art", binary |-> bin, checksum |-> sum, patch |-> p]

\* time.Time <-> RFC 3339 text
FormatTime(t) ==
  CASE t = 0 -> "0001-01-01T00:00:00Z"
    [] t = 1 -> "2024-01-01T00:00:00Z"
    [] t = 2 -> "2024-06-01T00:00:00Z"
    [] OTHER -> "+10000-01-01T00:00:00Z"

ParseTime(s) == CHOOSE t \in 0 .. MaxJSONTime : FormatTime(t) = s

\* json.Decoder.Decode into the Manifest struct: null and an absent member
\* both leave a map or a pointer nil.
DecodeArtifact(ja) ==
  IF ja.j = "art"
    THEN Ptr([Binary |-> ja.binary, Checksum |-> ja.checksum, Patch |-> ja.patch])
    ELSE Nil

DecodeArtifactMap(jm) ==
  IF jm.j = "object"
    THEN GoMap([k \in DOMAIN jm.members |-> DecodeArtifact(jm.members[k])])
    ELSE Nil

DecodeChannel(jc) ==
  IF jc.j = "chan"
    THEN Ptr([Version |-> jc.version, Build |-> ParseTime(jc.build),
              Artifact |-> DecodeArtifactMap(jc.artifact)])
    ELSE Nil

DecodeChannelMap(jm) ==
  IF jm.j = "object"
    THEN GoMap([k \in DOMAIN jm.members |-> DecodeChannel(jm.members[k])])
    ELSE Nil

DecodeFails(doc) == doc.j # "doc"

\* a document that fails to decode leaves the manifest as it was declared
Decode(doc) ==
  [Channel |-> IF DecodeFails(doc) THEN Nil ELSE DecodeChannelMap(doc.channel)]

\* json.Marshal of the Manifest struct: every field is written, a nil map or
\* a nil pointer is written as null.
MarshalArtifact(a) ==
  IF a.kind = "ptr"
    THEN JArt(a.v.Binary, a.v.Checksum, a.v.Patch)
    ELSE JNull

MarshalArtifactMap(am) ==
  IF am.kind = "map"
    THEN JObj([k \in DOMAIN am.m |-> MarshalArtifact(am.m[k])])
    ELSE JNull

MarshalChannel(c) ==
  IF c.kind = "ptr"
    THEN JChan(c.v.Version, FormatTime(c.v.Build), MarshalArtifactMap(c.v.Artifact))
    ELSE JNull

MarshalChannelMap(cm) ==
  IF cm.kind = "map"
    THEN JObj([k \in DOMAIN cm.m |-> MarshalChannel(cm.m[k])])
    ELSE JNull

Marshal(mf) == JDoc(MarshalChannelMap(mf.Channel))

\* Time.MarshalJSON refuses a year outside [0, 9999].
MarshalFails(mf) ==
  /\ mf.Channel.kind = "map"
  /\ \E k \in DOMAIN mf.Channel.m :
       /\ mf.Channel.m[k].kind = "ptr"
       /\ mf.Channel.m[k].v.Build > MaxJSONTime

\* ------------------------------------------------------------ object keys
ManifestKey(appId) == appId \o "/manifest.json"
ArtifactKey(appId, checksum) == appId \o "/artifect/" \o checksum
\* variant: the locator is spelt differently from the key the upload used
BinaryLocatorRespelt(appId, checksum) == appId \o "/artifact/" \o checksum

BinaryLocator(appId, checksum) == appId \o "/artifect/" \o checksum

\* ---------------------------------------------------------------- digest
\* hex.EncodeToString(hasher.Sum(nil)): the digest is modelled as an
\* injective function of the bytes read, rendered in lowercase hex.
HexByte(b) ==
  CASE b = 104 -> "68"
    [] b = 105 -> "69"
    [] b = 7 -> "07"
    [] OTHER -> "00"

RECURSIVE HexDigest(_)
HexDigest(bytes) ==
  IF bytes = <<>> THEN "" ELSE HexByte(Head(bytes)) \o HexDigest(Tail(bytes))

\* bytes an io.Reader over the file yields from its current position
ReadFrom(file) == SubSeq(file.content, file.pos + 1, Len(file.content))

\* --------------------------------------------------------- ensure-path
\* variant: a nil channel map is replaced by one holding the known channels
InitChannelMapPrefilled(mf) ==
  IF mf.Channel = Nil
    THEN [mf EXCEPT !.Channel =
            GoMap([k \in Channels |->
                     Ptr([Version |-> "", Build |-> ZeroTime, Artifact |-> GoMap(EmptyFcn)])])]
    ELSE mf

\* main.go 107-118
InitChannelMap(mf) ==
  IF mf.Channel = Nil THEN [mf EXCEPT !.Channel = GoMap(EmptyFcn)] ELSE mf

\* main.go 120-137
NewChannelEntry == Ptr([Version |-> "", Build |-> ZeroTime, Artifact |-> GoMap(EmptyFcn)])

\* variant: the channel entry is created even when it exists
EnsureChannelReset(mf, ch) ==
  [mf EXCEPT !.Channel = GoMap(MapPut(mf.Channel.m, ch, NewChannelEntry))]

EnsureChannel(mf, ch) ==
  IF ch \notin DOMAIN mf.Channel.m
    THEN [mf EXCEPT !.Channel = GoMap(MapPut(mf.Channel.m, ch, NewChannelEntry))]
    ELSE mf

\* main.go 139-145: manifest.Channel[Channel] is dereferenced, and a missing
\* platform is assigned into the Artifact map; both panic on nil.
NewArtifactEntry == Ptr([Binary |-> "", Checksum |-> "", Patch |-> ""])

PlatformPresent(mf, ch, pl) ==
  /\ mf.Channel.m[ch].v.Artifact.kind = "map"
  /\ pl \in DOMAIN mf.Channel.m[ch].v.Artifact.m

EnsurePlatformPanics(mf, ch, pl) ==
  \/ mf.Channel.m[ch] = Nil
  \/ mf.Channel.m[ch].v.Artifact = Nil

EnsurePlatform(mf, ch, pl) ==
  IF PlatformPresent(mf, ch, pl)
    THEN mf
    ELSE [mf EXCEPT !.Channel.m[ch].v.Artifact =
                      GoMap(MapPut(mf.Channel.m[ch].v.Artifact.m, pl, NewArtifactEntry))]

\* ------------------------------------------------------------- the bucket
JsonObject(doc) == [contentType |-> "application/json", body |-> doc]
BinaryObject(bytes) == [contentType |-> "application/octet-stream", body |-> [bytes |-> bytes]]

OldKey == "app1/artifect/07"
OldStable == JChan("0.9.0", FormatTime(1), JObj([k \in {"linux-x64"} |-> JArt(OldKey, "07", "app1/patch/p1")]))
OldBeta == JChan("0.8.0", FormatTime(2), JObj([k \in {"win-x64"} |-> JArt(OldKey, "07", "")]))

InitialDocs ==
  { JDoc(JAbsent),
    JDoc(JNull),
    JInvalid,
    JDoc(JObj([k \in {"stable", "beta"} |-> IF k = "stable" THEN OldStable ELSE OldBeta])),
    JDoc(JObj([k \in {"stable"} |-> JNull])),
    JDoc(JObj([k \in {"stable", "beta"} |->
                 IF k = "stable" THEN JChan("0.9.0", FormatTime(1), JAbsent)
                                 ELSE JChan("0.8.0", FormatTime(2), JNull)])),
    JDoc(JObj([k \in {"stable"} |->
                 JChan("0.9.0", FormatTime(1), JObj([q \in {"linux-x64"} |-> JNull]))])),
    JDoc(JObj([k \in {"beta"} |-> JChan("0.8.0", FormatTime(2), JAbsent)])) }

InitialBuckets ==
  {EmptyFcn} \cup
  { [k \in {ManifestKey("app1"), OldKey} |->
       IF k = OldKey THEN BinaryObject(<<7>>) ELSE JsonObject(d)] : d \in InitialDocs }

\* ------------------------------------------------------------------ state
VARIABLES
  bucket,        \* object key -> stored object
  pc,            \* position of each program instance in main
  envUnset,      \* positions in EnvNames of the variables the environment lacks
  env,           \* Channel, AppID, Version, Platform read from the environment
  file,          \* the opened executable: content, size, mtime, read position
  manifest,      \* var manifest Manifest
  marshaled,     \* marshaledManifest
  out,           \* last line printed
  runs,          \* invocations started so far
  fetchOutcome,  \* how GetObject answered in this run
  fetched,       \* the manifest as loaded in this run
  calls,         \* PutObject calls of this run: <<object, acknowledged>>
  mver,          \* number of manifest writes the bucket has acknowledged
  fetchVer,      \* mver when this run fetched
  writeVer       \* mver once this run's manifest write was acknowledged

vars == <<bucket, pc, envUnset, env, file, manifest, marshaled, out, runs,
          fetchOutcome, fetched, calls, mver, fetchVer, writeVer>>

NoEnv == [AppID |-> "", Channel |-> "", Version |-> "", Platform |-> ""]
NoFile == [content |-> <<>>, size |-> 0, mtime |-> ZeroTime, pos |-> 0]
NoBytes == JAbsent

Exited == {"exit0", "exit1", "exit2"}

\* main.go 19-71: the nine lookups, in order; the first unset one is reported
UnsetChoices == {{}} \cup {{i} : i \in 1 .. Len(EnvNames)} \cup {{5, 8}}

FirstUnset(unset) == CHOOSE i \in unset : \A k \in unset : i <= k

\* variant: the lookup of EXECUTABLE_PATH is not checked
MissingEnvButPath(unset) == unset \cap (1 .. Len(EnvNames) - 1)

\* the unset variables among those whose lookup main checks
MissingEnv(unset) == unset \cap (1 .. Len(EnvNames))

\* the input domains a specification lets the runs draw from
AllInputs ==
  [Unset |-> UnsetChoices, Platforms |-> Platforms, Versions |-> Versions,
   Contents |-> Contents, ModTimes |-> ModTimes]

InitProcs ==
  /\ pc = [p \in Procs |-> "idle"]
  /\ envUnset = [p \in Procs |-> {}]
  /\ env = [p \in Procs |-> NoEnv]
  /\ file = [p \in Procs |-> NoFile]
  /\ manifest = [p \in Procs |-> ZeroManifest]
  /\ marshaled = [p \in Procs |-> NoBytes]
  /\ out = [p \in Procs |-> ""]
  /\ runs = 0
  /\ fetchOutcome = [p \in Procs |-> "none"]
  /\ fetched = [p \in Procs |-> ZeroManifest]
  /\ calls = [p \in Procs |-> {}]
  /\ mver = 0
  /\ fetchVer = [p \in Procs |-> 0]
  /\ writeVer = [p \in Procs |-> 0]

Init == bucket \in InitialBuckets /\ InitProcs

\* os.Exit(1) after printing msg: the process and its memory are gone.
Fail(p, msg) ==
  /\ pc' = [pc EXCEPT ![p] = "exit1"]
  /\ out' = [out EXCEPT ![p] = msg]
  /\ env' = [env EXCEPT ![p] = NoEnv]
  /\ file' = [file EXCEPT ![p] = NoFile]
  /\ manifest' = [manifest EXCEPT ![p] = ZeroManifest]
  /\ marshaled' = [marshaled EXCEPT ![p] = NoBytes]

\* an unrecovered panic: the runtime prints it and exits with status 2
Panic(p) ==
  /\ pc' = [pc EXCEPT ![p] = "exit2"]
  /\ out' = [out EXCEPT ![p] = "panic"]
  /\ env' = [env EXCEPT ![p] = NoEnv]
  /\ file' = [file EXCEPT ![p] = NoFile]
  /\ manifest' = [manifest EXCEPT ![p] = ZeroManifest]
  /\ marshaled' = [marshaled EXCEPT ![p] = NoBytes]

Goto(p, label) == pc' = [pc EXCEPT ![p] = label]

\* variant: the manifest is uploaded before the artifact
PipelineManifestFirst ==
  <<"open", "connect", "fetch", "ensure", "checksum", "seek",
    "marshal", "put_manifest", "put_artifact">>

\* the order of the steps of main
Pipeline ==
  <<"open", "connect", "fetch", "ensure", "checksum", "seek",
    "put_artifact", "marshal", "put_manifest">>

NextLabel(label) ==
  LET i == CHOOSE k \in 1 .. Len(Pipeline) : Pipeline[k] = label
  IN IF i = Len(Pipeline) THEN "exit0" ELSE Pipeline[i + 1]

\* a new invocation of the program; it may take the place of one that exited
Configure(p, in) ==
  /\ pc[p] \in {"idle"} \cup Exited
  /\ runs < MaxRuns
  /\ runs' = runs + 1
  /\ fetchOutcome' = [fetchOutcome EXCEPT ![p] = "none"]
  /\ fetched' = [fetched EXCEPT ![p] = ZeroManifest]
  /\ calls' = [calls EXCEPT ![p] = {}]
  /\ fetchVer' = [fetchVer EXCEPT ![p] = 0]
  /\ writeVer' = [writeVer EXCEPT ![p] = 0]
  /\ \E unset \in in.Unset :
       /\ envUnset' = [envUnset EXCEPT ![p] = unset]
       /\ IF MissingEnv(unset) # {}
         THEN Fail(p, "E: " \o EnvNames[FirstUnset(MissingEnv(unset))] \o " is not set")
         ELSE \E a \in AppIDs, c \in Channels, v \in in.Versions, pl \in in.Platforms :
                /\ env' = [env EXCEPT ![p] = [AppID |-> a, Channel |-> c,
                                               Version |-> v, Platform |-> pl]]
                /\ Goto(p, Pipeline[1])
                /\ out' = [out EXCEPT ![p] = ""]
                /\ file' = [file EXCEPT ![p] = NoFile]
                /\ manifest' = [manifest EXCEPT ![p] = ZeroManifest]
                /\ marshaled' = [marshaled EXCEPT ![p] = NoBytes]
  /\ UNCHANGED <<bucket, mver>>

\* main.go 73-83: os.Open and Stat
OpenExecutable(p, in) ==
  /\ pc[p] = "open"
  /\ \/ \E msg \in {"E: Failed to open executable", "E: Failed to stat executable"} :
          Fail(p, msg)
     \/ \E c \in in.Contents, t \in in.ModTimes :
          /\ file' = [file EXCEPT ![p] = [content |-> c, size |-> Len(c), mtime |-> t, pos |-> 0]]
          /\ Goto(p, NextLabel("open"))
          /\ UNCHANGED <<env, manifest, marshaled, out>>
  /\ UNCHANGED <<bucket, runs, envUnset, fetchOutcome, fetched, calls, mver, fetchVer, writeVer>>

\* main.go 85-94: minio.NewCore
Connect(p) ==
  /\ pc[p] = "connect"
  /\ \/ Fail(p, "E: Failed to connect to r2")
     \/ /\ Goto(p, NextLabel("connect"))
        /\ UNCHANGED <<env, file, manifest, marshaled, out>>
  /\ UNCHANGED <<bucket, runs, envUnset, fetchOutcome, fetched, calls, mver, fetchVer, writeVer>>

\* ---------------------------------------------------------------- load
\* answers the storage service can give to GetObject for a key
FetchOutcomes(b, key) ==
  IF key \in DOMAIN b THEN {"ok", "error"} ELSE {"notfound", "error"}

\* variant: the error of Decode is not checked
FetchAbortsNever(outcome, body) == FALSE

\* main.go 100-105: only a decode failure aborts the run
FetchAborts(outcome, body) == outcome = "ok" /\ DecodeFails(body)

\* variant: the run goes on with the manifest of the known channels
LoadManifestKnownChannels(outcome, body) ==
  IF outcome = "ok"
    THEN Decode(body)
    ELSE [Channel |-> GoMap([k \in Channels |->
                               Ptr([Version |-> "", Build |-> ZeroTime,
                                    Artifact |-> GoMap(EmptyFcn)])])]

\* main.go 96-105: the manifest the run goes on with
LoadManifest(outcome, body) ==
  IF outcome = "ok" THEN Decode(body) ELSE ZeroManifest

Fetch(p) ==
  /\ pc[p] = "fetch"
  /\ \E outcome \in FetchOutcomes(bucket, ManifestKey(env[p].AppID)) :
       LET body == IF outcome = "ok"
                     THEN bucket[ManifestKey(env[p].AppID)].body
                     ELSE JAbsent
       IN /\ fetchOutcome' = [fetchOutcome EXCEPT ![p] = outcome]
          /\ fetchVer' = [fetchVer EXCEPT ![p] = mver]
          /\ IF FetchAborts(outcome, body)
               THEN /\ Fail(p, "E: Failed to decode manifest")
                    /\ UNCHANGED fetched
               ELSE /\ manifest' = [manifest EXCEPT ![p] = LoadManifest(outcome, body)]
                    /\ fetched' = [fetched EXCEPT ![p] = LoadManifest(outcome, body)]
                    /\ Goto(p, NextLabel("fetch"))
                    /\ UNCHANGED <<env, file, marshaled, out>>
  /\ UNCHANGED <<bucket, runs, envUnset, calls, mver, writeVer>>

\* main.go 107-145
EnsurePath(p) ==
  /\ pc[p] = "ensure"
  /\ LET mf == EnsureChannel(InitChannelMap(manifest[p]), env[p].Channel)
     IN IF EnsurePlatformPanics(mf, env[p].Channel, env[p].Platform)
          THEN Panic(p)
          ELSE /\ manifest' = [manifest EXCEPT ![p] =
                                 EnsurePlatform(mf, env[p].Channel, env[p].Platform)]
               /\ Goto(p, NextLabel("ensure"))
               /\ UNCHANGED <<env, file, marshaled, out>>
  /\ UNCHANGED <<bucket, runs, envUnset, fetchOutcome, fetched, calls, mver, fetchVer, writeVer>>

\* main.go 147
SetVersion(mf, ch, v) == [mf EXCEPT !.Channel.m[ch].v.Version = v]

\* main.go 156; the entry is dereferenced
SetChecksumPanics(mf, ch, pl) == mf.Channel.m[ch].v.Artifact.m[pl] = Nil

\* variant: the entry is replaced by a new one that holds the checksum
SetChecksumFresh(mf, ch, pl, sum) ==
  [mf EXCEPT !.Channel.m[ch].v.Artifact.m[pl] =
     Ptr([Binary |-> "", Checksum |-> sum, Patch |-> ""])]

SetChecksum(mf, ch, pl, sum) ==
  [mf EXCEPT !.Channel.m[ch].v.Artifact.m[pl].v.Checksum = sum]

\* main.go 147-156: io.Copy(hasher, executable) reads to the end of the file
Checksum(p) ==
  /\ pc[p] = "checksum"
  /\ \/ Fail(p, "E: Failed to create checksum")
     \/ /\ SetChecksumPanics(manifest[p], env[p].Channel, env[p].Platform)
        /\ Panic(p)
     \/ /\ ~SetChecksumPanics(manifest[p], env[p].Channel, env[p].Platform)
        /\ manifest' = [manifest EXCEPT ![p] =
             SetChecksum(SetVersion(@, env[p].Channel, env[p].Version),
                         env[p].Channel, env[p].Platform, HexDigest(ReadFrom(file[p])))]
        /\ file' = [file EXCEPT ![p].pos = Len(file[p].content)]
        /\ Goto(p, NextLabel("checksum"))
        /\ UNCHANGED <<env, marshaled, out>>
  /\ UNCHANGED <<bucket, runs, envUnset, fetchOutcome, fetched, calls, mver, fetchVer, writeVer>>

\* variant: the file is left where the digest computation stopped reading
SeekStartOmitted(f) == f

\* main.go 158-162
SeekStart(f) == [f EXCEPT !.pos = 0]

Seek(p) ==
  /\ pc[p] = "seek"
  /\ \/ Fail(p, "E: Failed to seek to beginning of executable")
     \/ /\ file' = [file EXCEPT ![p] = SeekStart(@)]
        /\ Goto(p, NextLabel("seek"))
        /\ UNCHANGED <<env, manifest, marshaled, out>>
  /\ UNCHANGED <<bucket, runs, envUnset, fetchOutcome, fetched, calls, mver, fetchVer, writeVer>>

\* the checksum main.go 164 and 174 read back from the manifest
TargetChecksum(p) ==
  manifest[p].Channel.m[env[p].Channel].v.Artifact.m[env[p].Platform].v.Checksum

\* PutObject with a declared size fails when the reader yields fewer bytes
ShortRead(f) == Len(ReadFrom(f)) # f.size

\* variant: the error of the artifact PutObject is not checked
AfterArtifactStoreUnchecked(ok) == NextLabel("put_artifact")

\* main.go 167-172: where the run goes after the artifact PutObject returned
AfterArtifactStore(ok) == IF ok THEN NextLabel("put_artifact") ELSE "exit1"

\* main.go 164-172
PutArtifact(p) ==
  /\ pc[p] = "put_artifact"
  /\ \E ok \in IF ShortRead(file[p]) THEN {FALSE} ELSE BOOLEAN :
       /\ calls' = [calls EXCEPT ![p] = @ \cup {<<"artifact", ok>>}]
       /\ bucket' = IF ok
                      THEN MapPut(bucket, ArtifactKey(env[p].AppID, TargetChecksum(p)),
                                  BinaryObject(ReadFrom(file[p])))
                      ELSE bucket
       /\ IF AfterArtifactStore(ok) = "exit1"
            THEN Fail(p, "E: Failed to upload artifact")
            ELSE /\ Goto(p, AfterArtifactStore(ok))
                 /\ out' = [out EXCEPT ![p] =
                              IF ok THEN "I: Artifact uploaded successfully" ELSE @]
                 /\ file' = [file EXCEPT ![p].pos = IF ok THEN Len(file[p].content) ELSE @]
                 /\ UNCHANGED <<env, manifest, marshaled>>
  /\ UNCHANGED <<runs, envUnset, fetchOutcome, fetched, mver, fetchVer, writeVer>>

\* variant: the build time of the channel is not updated
SetReleaseKeepBuild(mf, ch, pl, bin, t) ==
  [mf EXCEPT !.Channel.m[ch].v.Artifact.m[pl].v.Binary = bin]

\* main.go 174-175
SetRelease(mf, ch, pl, bin, t) ==
  [mf EXCEPT !.Channel.m[ch].v.Artifact.m[pl].v.Binary = bin,
             !.Channel.m[ch].v.Build = t]

\* main.go 174-181
MarshalManifest(p) ==
  /\ pc[p] = "marshal"
  /\ LET mf == SetRelease(manifest[p], env[p].Channel, env[p].Platform,
                          BinaryLocator(env[p].AppID, TargetChecksum(p)), file[p].mtime)
     IN IF MarshalFails(mf)
          THEN Fail(p, "E: Failed to marshal manifest")
          ELSE /\ manifest' = [manifest EXCEPT ![p] = mf]
               /\ marshaled' = [marshaled EXCEPT ![p] = Marshal(mf)]
               /\ Goto(p, NextLabel("marshal"))
               /\ UNCHANGED <<env, file, out>>
  /\ UNCHANGED <<bucket, runs, envUnset, fetchOutcome, fetched, calls, mver, fetchVer, writeVer>>

\* main.go 183-192
PutManifest(p) ==
  /\ pc[p] = "put_manifest"
  /\ \/ /\ calls' = [calls EXCEPT ![p] = @ \cup {<<"manifest", TRUE>>}]
        /\ bucket' = MapPut(bucket, ManifestKey(env[p].AppID), JsonObject(marshaled[p]))
        /\ mver' = mver + 1
        /\ writeVer' = [writeVer EXCEPT ![p] = mver + 1]
        /\ Goto(p, NextLabel("put_manifest"))
        /\ out' = [out EXCEPT ![p] = "I: Manifest uploaded successfully"]
        /\ UNCHANGED <<env, file, manifest, marshaled>>
     \/ /\ calls' = [calls EXCEPT ![p] = @ \cup {<<"manifest", FALSE>>}]
        /\ Fail(p, "E: Failed to upload manifest")
        /\ UNCHANGED <<bucket, mver, writeVer>>
  /\ UNCHANGED <<runs, envUnset, fetchOutcome, fetched, fetchVer>>

Step(p, in) ==
  \/ Configure(p, in)
  \/ OpenExecutable(p, in)
  \/ Connect(p)
  \/ Fetch(p)
  \/ EnsurePath(p)
  \/ Checksum(p)
  \/ Seek(p)
  \/ PutArtifact(p)
  \/ MarshalManifest(p)
  \/ PutManifest(p)

\* publish operations run one after another: one program instance, run
\* again after it exited
Next == Step(1, AllInputs)

Spec == Init /\ [][Next]_vars

\* publish operations run at the same time, in any interleaving; the runs
\* publish the same file under the same version for the same platform and
\* differ in their channels
ConcInputs ==
  [Unset |-> {{}, {1}}, Platforms |-> {"linux-x64"}, Versions |-> {"1.0.0"},
   Contents |-> {<<104, 105>>}, ModTimes |-> {1}]

ConcBuckets ==
  { b \in InitialBuckets :
      \/ b = EmptyFcn
      \/ /\ b[ManifestKey("app1")].body.j = "doc"
         /\ b[ManifestKey("app1")].body.channel.j = "object"
         /\ "stable" \in DOMAIN b[ManifestKey("app1")].body.channel.members
         /\ b[ManifestKey("app1")].body.channel.members["stable"] = OldStable }

ConcInit == bucket \in ConcBuckets /\ InitProcs

ConcNext == \E p \in Procs : Step(p, ConcInputs)

ConcSpec == ConcInit /\ [][ConcNext]_vars

\* ================================================================ claims
\* reading the stored documents
ChannelKeys(doc) ==
  IF doc.j = "doc" /\ doc.channel.j = "object" THEN DOMAIN doc.channel.members ELSE {}

PlatformKeys(doc, c) ==
  IF /\ c \in ChannelKeys(doc)
     /\ doc.channel.members[c].j = "chan"
     /\ doc.channel.members[c].artifact.j = "object"
    THEN DOMAIN doc.channel.members[c].artifact.members
    ELSE {}

ArtifactAt(doc, c, pl) == doc.channel.members[c].artifact.members[pl]

AllKeys(doc) ==
  {<<c>> : c \in ChannelKeys(doc)} \cup
  UNION {{<<c, pl>> : pl \in PlatformKeys(doc, c)} : c \in ChannelKeys(doc)}

StoredKeys(b, a) ==
  IF ManifestKey(a) \in DOMAIN b THEN AllKeys(b[ManifestKey(a)].body) ELSE {}

Failed(p) == pc[p] \in {"exit1", "exit2"}

\* C1: when the manifest fetch fails with an error other than not-found, the
\* run aborts with a failure outcome and neither PutObject is ever called.
C1_FetchErrorAborts ==
  \A p \in Procs : fetchOutcome[p] = "error" => pc[p] = "exit1" /\ calls[p] = {}

\* C2: over sequential publish operations, whatever each fetch answered, every
\* channel key and every platform key of the stored manifest before a step is
\* still in the stored manifest after it.
C2_KeysNeverLost ==
  [][\A a \in AppIDs : StoredKeys(bucket, a) \subseteq StoredKeys(bucket', a)]_vars

\* C3: in every reachable state of concurrently running publish operations,
\* every artifact entry of the stored manifest that names a binary names an
\* object present in the bucket, and a run calls PutObject for the manifest
\* only after its artifact PutObject was acknowledged.
C3_NoDanglingBinary ==
  /\ \A a \in AppIDs :
       ManifestKey(a) \in DOMAIN bucket =>
         LET doc == bucket[ManifestKey(a)].body
         IN \A c \in ChannelKeys(doc) : \A pl \in PlatformKeys(doc, c) :
              (ArtifactAt(doc, c, pl).j = "art" /\ ArtifactAt(doc, c, pl).binary # "")
                => ArtifactAt(doc, c, pl).binary \in DOMAIN bucket
  /\ \A p \in Procs :
       (\E ok \in BOOLEAN : <<"manifest", ok>> \in calls[p])
         => <<"artifact", TRUE>> \in calls[p]

C3_Witness ==
  \E p, q \in Procs :
    /\ pc[p] = "exit0" /\ writeVer[p] = mver
    /\ pc[q] \in {"put_artifact", "marshal", "put_manifest"}
    /\ fetchVer[q] < mver
    /\ LET doc == bucket[ManifestKey(env[p].AppID)].body
       IN /\ env[p].Platform \in PlatformKeys(doc, env[p].Channel)
          /\ ArtifactAt(doc, env[p].Channel, env[p].Platform).binary
               = ArtifactKey(env[p].AppID, "6869")
          /\ ArtifactKey(env[p].AppID, "6869") \in DOMAIN bucket

\* C4: if the artifact PutObject fails, the run ends with exit status 1 and
\* makes no PutObject call for the manifest.
C4_ArtifactFailureStops ==
  \A p \in Procs :
    <<"artifact", FALSE>> \in calls[p]
      => pc[p] = "exit1" /\ calls[p] = {<<"artifact", FALSE>>}

C4_Witness ==
  \E p \in Procs :
    /\ <<"artifact", FALSE>> \in calls[p]
    /\ out[p] = "E: Failed to upload artifact"
    /\ ManifestKey("app1") \in DOMAIN bucket

\* entries a merge for (ch, pl) must leave as they were loaded
ChannelsOf(mf) == IF mf.Channel.kind = "map" THEN DOMAIN mf.Channel.m ELSE {}

PlatformsOf(mf, c) ==
  IF c \in ChannelsOf(mf) /\ mf.Channel.m[c].kind = "ptr"
       /\ mf.Channel.m[c].v.Artifact.kind = "map"
    THEN DOMAIN mf.Channel.m[c].v.Artifact.m
    ELSE {}

FrameKept(old, new, ch, pl) ==
  /\ \A c \in ChannelsOf(old) \ {ch} :
       c \in ChannelsOf(new) /\ new.Channel.m[c] = old.Channel.m[c]
  /\ \A q \in PlatformsOf(old, ch) \ {pl} :
       /\ q \in PlatformsOf(new, ch)
       /\ new.Channel.m[ch].v.Artifact.m[q] = old.Channel.m[ch].v.Artifact.m[q]

\* C5: after a successful fetch and decode, the manifest a publish for
\* (channel, platform) writes holds every other platform entry of that channel
\* and every other channel (version, build, artifact entries) exactly as fetched.
C5_OtherEntriesUnchanged ==
  \A p \in Procs :
    fetchOutcome[p] = "ok" =>
      /\ pc[p] \in {"put_manifest", "exit0"} =>
           FrameKept(fetched[p], Decode(marshaled[p]), env[p].Channel, env[p].Platform)
      /\ pc[p] = "exit0" =>
           FrameKept(fetched[p], Decode(bucket[ManifestKey(env[p].AppID)].body),
                     env[p].Channel, env[p].Platform)

C5_Witness ==
  \E p \in Procs :
    /\ pc[p] = "exit0" /\ fetchOutcome[p] = "ok"
    /\ ChannelsOf(fetched[p]) \ {env[p].Channel} # {}
    /\ PlatformsOf(fetched[p], env[p].Channel) \ {env[p].Platform} # {}
    /\ \E c \in ChannelsOf(fetched[p]) \ {env[p].Channel} : PlatformsOf(fetched[p], c) # {}

\* C6: a successful publish with app id A and digest H stores the artifact
\* under A/artifact/H, records that key as the target entry's binary, and
\* stores the manifest under A/manifest.json.
C6_ObjectKeys ==
  \A p \in Procs :
    pc[p] = "exit0" =>
      LET key == env[p].AppID \o "/artifact/" \o HexDigest(file[p].content)
      IN /\ key \in DOMAIN bucket
         /\ ArtifactAt(marshaled[p], env[p].Channel, env[p].Platform).binary = key
         /\ (env[p].AppID \o "/manifest.json") \in DOMAIN bucket

\* C7: for every manifest the load step accepts and every target, ensure-path
\* does not crash and leaves the target platform entry present.
C7_EnsurePathCompletes ==
  \A p \in Procs :
    /\ pc[p] # "exit2"
    /\ pc[p] = "checksum" =>
         /\ PlatformPresent(manifest[p], env[p].Channel, env[p].Platform)
         /\ ~SetChecksumPanics(manifest[p], env[p].Channel, env[p].Platform)

\* q wrote the manifest last, after p did, and had fetched before p wrote
Raced(p, q) ==
  /\ p # q
  /\ pc[p] = "exit0" /\ pc[q] = "exit0"
  /\ <<env[p].Channel, env[p].Platform>> # <<env[q].Channel, env[q].Platform>>
  /\ fetchVer[q] < writeVer[p]
  /\ writeVer[p] < writeVer[q]
  /\ writeVer[q] = mver

Published == "I: Manifest uploaded successfully"

\* C8: whenever two runs with different targets raced (the last writer fetched
\* before the other stored), both report success and the stored manifest is
\* the last writer's document: what it had fetched plus its own target, so an
\* entry of the other run that the last writer had not fetched is missing.
C8_LastWriterWins ==
  \A p, q \in Procs :
    Raced(p, q) =>
      LET stored == bucket[ManifestKey(env[q].AppID)].body
          had == AllKeys(Marshal(fetched[q]))
      IN /\ out[p] = Published /\ out[q] = Published
         /\ stored = marshaled[q]
         /\ AllKeys(stored) = had \cup {<<env[q].Channel>>, <<env[q].Channel, env[q].Platform>>}
         /\ <<env[p].Channel, env[p].Platform>> \notin had
              => <<env[p].Channel, env[p].Platform>> \notin AllKeys(stored)

C8_Witness ==
  \E p, q \in Procs :
    /\ Raced(p, q)
    /\ out[p] = Published /\ out[q] = Published
    /\ fetchVer[p] = fetchVer[q]
    /\ <<env[p].Channel, env[p].Platform>> \notin StoredKeys(bucket, env[q].AppID)
    /\ <<env[q].Channel, env[q].Platform>> \in StoredKeys(bucket, env[q].AppID)

ManifestObjects(b) == [k \in {ManifestKey(a) : a \in AppIDs} \cap DOMAIN b |-> b[k]]

C10_NotFoundStartsEmpty ==
  \A p \in Procs :
    fetchOutcome[p] = "notfound" =>
      /\ fetched[p] = ZeroManifest
      /\ pc[p] # "exit2"
      /\ out[p] # "E: Failed to decode manifest"
      /\ pc[p] \in {"put_manifest", "exit0"} =>
           /\ ChannelKeys(marshaled[p]) = {env[p].Channel}
           /\ PlatformKeys(marshaled[p], env[p].Channel) = {env[p].Platform}
      /\ pc[p] = "exit0" => bucket[ManifestKey(env[p].AppID)].body = marshaled[p]

C10_Witness ==
  \E p \in Procs :
    /\ fetchOutcome[p] = "notfound"
    /\ pc[p] = "exit0"
    /\ AllKeys(bucket[ManifestKey(env[p].AppID)].body)
         = {<<env[p].Channel>>, <<env[p].Channel, env[p].Platform>>}

\* the run fetched the document the bucket still holds
FetchedStored(p) ==
  /\ fetchOutcome[p] = "ok"
  /\ fetchVer[p] = mver
  /\ ManifestKey("app1") \in DOMAIN bucket

\* C11: if GetObject succeeds and the fetched document cannot be decoded, the
\* run ends with exit status 1 and makes no PutObject call.
C11_DecodeFailureStops ==
  \A p \in Procs :
    (FetchedStored(p) /\ DecodeFails(bucket[ManifestKey("app1")].body))
      => /\ pc[p] = "exit1"
         /\ out[p] = "E: Failed to decode manifest"
         /\ calls[p] = {}

C11_Witness ==
  \E p \in Procs :
    /\ FetchedStored(p)
    /\ bucket[ManifestKey("app1")].body = JInvalid
    /\ pc[p] = "exit1"
    /\ out[p] = "E: Failed to decode manifest"

HasEntry(doc, c, pl) == pl \in PlatformKeys(doc, c) /\ ArtifactAt(doc, c, pl).j = "art"

\* the stored manifest has an entry for p's target whose binary names an
\* object holding the very bytes p publishes: an earlier publish of them
PublishedBefore(p) ==
  /\ ManifestKey(env[p].AppID) \in DOMAIN bucket
  /\ fetchVer[p] = mver
  /\ LET old == bucket[ManifestKey(env[p].AppID)].body
     IN /\ HasEntry(old, env[p].Channel, env[p].Platform)
        /\ ArtifactAt(old, env[p].Channel, env[p].Platform).binary \in DOMAIN bucket
        /\ bucket[ArtifactAt(old, env[p].Channel, env[p].Platform).binary]
             = BinaryObject(file[p].content)

\* C12: when a publish for a (channel, platform) whose stored entry comes from
\* an earlier publish of the same bytes succeeds, the entry's checksum and
\* binary in the stored manifest are the same after it as before it, the
\* object under that key holds the same bytes, and the channel's version and
\* build are those of this run.
C12_RepublishIdempotent ==
  [][\A p \in Procs :
       (pc[p] = "put_manifest" /\ pc'[p] = "exit0" /\ PublishedBefore(p)) =>
         LET old == bucket[ManifestKey(env[p].AppID)].body
             new == bucket'[ManifestKey(env[p].AppID)].body
             c == env[p].Channel
             pl == env[p].Platform
         IN /\ HasEntry(new, c, pl)
            /\ ArtifactAt(new, c, pl).checksum = ArtifactAt(old, c, pl).checksum
            /\ ArtifactAt(new, c, pl).binary = ArtifactAt(old, c, pl).binary
            /\ bucket'[ArtifactAt(new, c, pl).binary] = BinaryObject(file[p].content)
            /\ new.channel.members[c].version = env[p].Version
            /\ new.channel.members[c].build = FormatTime(file[p].mtime)]_vars

\* the second of two runs republished, under a new version and build time,
\* the bytes the first run had published for the same target
C12_Witness ==
  \E p \in Procs :
    /\ pc[p] = "exit0" /\ runs = 2 /\ mver = 2 /\ writeVer[p] = 2
    /\ fetchOutcome[p] = "ok"
    /\ file[p].content = <<104, 105>>
    /\ env[p].Platform \in PlatformsOf(fetched[p], env[p].Channel)
    /\ LET was == fetched[p].Channel.m[env[p].Channel].v
           now == bucket[ManifestKey(env[p].AppID)].body
       IN /\ was.Artifact.m[env[p].Platform] # Nil
          /\ was.Artifact.m[env[p].Platform].v.Checksum = "6869"
          /\ was.Version # env[p].Version
          /\ was.Build # file[p].mtime
          /\ ArtifactAt(now, env[p].Channel, env[p].Platform).checksum = "6869"
          /\ now.channel.members[env[p].Channel].version = env[p].Version
          /\ now.channel.members[env[p].Channel].build = FormatTime(file[p].mtime)

\* C13: if any of the nine environment variables is unset, the run is at exit
\* status 1 with the message naming the first unset one, and it has made no
\* GetObject and no PutObject call.
C13_MissingConfigStops ==
  \A p \in Procs :
    envUnset[p] # {} =>
      /\ pc[p] = "exit1"
      /\ out[p] = "E: " \o EnvNames[FirstUnset(envUnset[p])] \o " is not set"
      /\ fetchOutcome[p] = "none"
      /\ calls[p] = {}

\* a run that lacked two variables reported the first of them
C13_Witness ==
  \E p \in Procs :
    /\ envUnset[p] = {5, 8}
    /\ pc[p] = "exit1"
    /\ out[p] = "E: CHANNEL is not set"
    /\ ManifestKey("app1") \in DOMAIN bucket

\* C14: the file is read from position zero when it is transmitted, and once
\* the artifact PutObject was acknowledged the object under the artifact key
\* holds the whole content of the file, of which the checksum recorded in the
\* manifest (and embedded in the key) is the digest.
C14_WholeArtifactStored ==
  \A p \in Procs :
    /\ pc[p] = "put_artifact" =>
         file[p].pos = 0 /\ ReadFrom(file[p]) = file[p].content
    /\ (pc[p] \in {"marshal", "put_manifest", "exit0"} /\ <<"artifact", TRUE>> \in calls[p]) =>
         LET key == ArtifactKey(env[p].AppID, TargetChecksum(p))
         IN /\ key \in DOMAIN bucket
            /\ bucket[key] = BinaryObject(file[p].content)
            /\ Len(bucket[key].body.bytes) = file[p].size
            /\ TargetChecksum(p) = HexDigest(bucket[key].body.bytes)
    /\ pc[p] = "exit0" =>
         LET e == ArtifactAt(marshaled[p], env[p].Channel, env[p].Platform)
         IN /\ e.binary \in DOMAIN bucket
            /\ e.checksum = HexDigest(bucket[e.binary].body.bytes)
            /\ bucket[e.binary].body.bytes = file[p].content

C14_Witness ==
  \E p \in Procs :
    /\ pc[p] = "exit0"
    /\ file[p].content = <<104, 105>>
    /\ ArtifactAt(marshaled[p], env[p].Channel, env[p].Platform).checksum = "6869"
    /\ bucket[ArtifactAt(marshaled[p], env[p].Channel, env[p].Platform).binary]
         = BinaryObject(<<104, 105>>)

\* C15: in every manifest the program writes, the channel mapping is a
\* mapping and the artifact mapping of every channel is a mapping, never
\* null, also for the channels the publish does not target.
C15_NoNullMapping ==
  \A p \in Procs :
    pc[p] = "exit0" =>
      /\ marshaled[p].channel.j = "object"
      /\ bucket[ManifestKey(env[p].AppID)].body = marshaled[p]
      /\ \A c \in ChannelKeys(marshaled[p]) :
           marshaled[p].channel.members[c].j = "chan" =>
             marshaled[p].channel.members[c].artifact.j = "object"

\* the manifest p fetched has an entry for p's target
FetchedEntry(p) ==
  /\ fetchOutcome[p] = "ok"
  /\ fetched[p].Channel.kind = "map"
  /\ env[p].Channel \in DOMAIN fetched[p].Channel.m
  /\ fetched[p].Channel.m[env[p].Channel].kind = "ptr"
  /\ PlatformPresent(fetched[p], env[p].Channel, env[p].Platform)
  /\ fetched[p].Channel.m[env[p].Channel].v.Artifact.m[env[p].Platform].kind = "ptr"

FetchedTarget(p) ==
  fetched[p].Channel.m[env[p].Channel].v.Artifact.m[env[p].Platform].v

\* C16: when the fetched manifest has an entry for the target (channel,
\* platform), the manifest the publish marshals and writes has that entry's
\* patch value unchanged, while its checksum and binary are those of the
\* publish.
C16_PatchKept ==
  \A p \in Procs :
    (FetchedEntry(p) /\ pc[p] \in {"put_manifest", "exit0"}) =>
      LET e == ArtifactAt(marshaled[p], env[p].Channel, env[p].Platform)
      IN /\ e.patch = FetchedTarget(p).Patch
         /\ e.checksum = HexDigest(file[p].content)
         /\ e.binary = BinaryLocator(env[p].AppID, e.checksum)
         /\ pc[p] = "exit0" =>
              ArtifactAt(bucket[ManifestKey(env[p].AppID)].body,
                         env[p].Channel, env[p].Platform) = e

\* a publish replaced the checksum and the binary of an entry that has a patch
C16_Witness ==
  \E p \in Procs :
    /\ pc[p] = "exit0"
    /\ FetchedEntry(p)
    /\ FetchedTarget(p).Patch = "app1/patch/p1"
    /\ FetchedTarget(p).Checksum = "07"
    /\ FetchedTarget(p).Binary = OldKey
    /\ LET e == ArtifactAt(bucket[ManifestKey(env[p].AppID)].body,
                           env[p].Channel, env[p].Platform)
       IN /\ e.patch = "app1/patch/p1"
          /\ e.checksum = "6869"
          /\ e.binary # OldKey

====
